---- MODULE Spec2Model ----
(***************************************************************************)
(* Model of src/hull_tools/hull.py: the batch run                          *)
(*   load_entries -> PhaseDiagram(entries) -> per-row formation energy and *)
(*   distance to hull -> to_csv -> optional plot.                          *)
(* The pymatgen calls (Composition, PDEntry, PhaseDiagram and its queries) *)
(* are modelled by what they compute on the inputs the model draws.        *)
(* Floating-point numbers are modelled as exact rationals plus the three   *)
(* non-finite values, so "within tolerance" reads "exactly" here.          *)
(***************************************************************************)
EXTENDS Integers, Sequences, FiniteSets

VARIABLES df, plot_path, pc, entries, pdgm, fenergies, dists, out_csv,
          image, notice, error

vars == <<df, plot_path, pc, entries, pdgm, fenergies, dists, out_csv,
          image, notice, error>>

\* ------------------------------------------------------------- bounds
\* Longest input table (rows of the CSV) in arbitrary row order.
MaxRows == 3
\* Most compound rows after the two references in a references-first table.
MaxCompounds == 2
\* Largest magnitude of an energy cell (integer eV).
MaxEnergy == 1
\* The same two bounds for the tables with several formula units per
\* composition, for the tables with invalid cells, and for the plot runs.
MaxUnitRows == 3
MaxUnitEnergy == 3
MaxInputRows == 3
MaxPlotRows == 4

\* ------------------------------------------------------- float values
\* A float is a record: k = "fin" with the reduced fraction n/d, or one of
\* the non-finite kinds "nan", "pinf", "ninf" (n = 0, d = 1).
Abs(i) == IF i < 0 THEN -i ELSE i

RECURSIVE Gcd(_, _)
Gcd(a, b) == IF b = 0 THEN a ELSE Gcd(b, a % b)

Fin(n, d) ==
    LET s == IF d < 0 THEN -1 ELSE 1
        g == Gcd(Abs(n), Abs(d))
    IN  [k |-> "fin", n |-> (s * n) \div g, d |-> (s * d) \div g]

NaN == [k |-> "nan", n |-> 0, d |-> 1]
PosInf == [k |-> "pinf", n |-> 0, d |-> 1]
NegInf == [k |-> "ninf", n |-> 0, d |-> 1]
Zero == Fin(0, 1)

IsFinite(x) == x.k = "fin"
Sign(x) == IF x.k = "pinf" THEN 1
           ELSE IF x.k = "ninf" THEN -1
           ELSE IF x.n > 0 THEN 1 ELSE IF x.n < 0 THEN -1 ELSE 0
InfOfSign(s) == IF s > 0 THEN PosInf ELSE NegInf

\* IEEE-754 negation, addition, multiplication, division by a positive count.
FNeg(x) == IF x.k = "nan" THEN NaN
           ELSE IF x.k = "pinf" THEN NegInf
           ELSE IF x.k = "ninf" THEN PosInf
           ELSE Fin(-x.n, x.d)

FAdd(x, y) ==
    IF x.k = "nan" \/ y.k = "nan" THEN NaN
    ELSE IF ~IsFinite(x) /\ ~IsFinite(y) THEN (IF x.k = y.k THEN x ELSE NaN)
    ELSE IF ~IsFinite(x) THEN x
    ELSE IF ~IsFinite(y) THEN y
    ELSE Fin(x.n * y.d + y.n * x.d, x.d * y.d)

FSub(x, y) == FAdd(x, FNeg(y))

FMul(x, y) ==
    IF x.k = "nan" \/ y.k = "nan" THEN NaN
    ELSE IF IsFinite(x) /\ IsFinite(y) THEN Fin(x.n * y.n, x.d * y.d)
    ELSE IF Sign(x) = 0 \/ Sign(y) = 0 THEN NaN
    ELSE InfOfSign(Sign(x) * Sign(y))

FDivCount(x, m) == IF IsFinite(x) THEN Fin(x.n, x.d * m) ELSE x

\* IEEE-754 comparisons: every comparison with NaN is false.
FLt(x, y) ==
    IF x.k = "nan" \/ y.k = "nan" THEN FALSE
    ELSE IF x.k = "pinf" \/ y.k = "ninf" THEN FALSE
    ELSE IF x.k = "ninf" \/ y.k = "pinf" THEN TRUE
    ELSE x.n * y.d < y.n * x.d

FGe(x, y) ==
    IF x.k = "nan" \/ y.k = "nan" THEN FALSE
    ELSE ~FLt(x, y)

\* ------------------------------------------ pymatgen.core.Composition
\* Element symbols of the formulas the model draws.
Symbols == {"A", "B", "C", "D"}

Amt(a, b, c, d) == [s \in Symbols |->
    IF s = "A" THEN a ELSE IF s = "B" THEN b ELSE IF s = "C" THEN c ELSE d]

\* Formula strings that Composition(...) accepts, and one it rejects (a
\* negative amount).  Every accepted formula has at most two elements.
GoodFormulas == {"A", "A2", "B", "AB", "AB3", "C", "D"}
BadFormula == "A-1"

\* Composition(str): whether parsing raises, and the element amounts.
ParseRaises(f) == f \notin GoodFormulas

Composition(f) ==
    CASE f = "A"   -> Amt(1, 0, 0, 0)
      [] f = "A2"  -> Amt(2, 0, 0, 0)
      [] f = "B"   -> Amt(0, 1, 0, 0)
      [] f = "AB"  -> Amt(1, 1, 0, 0)
      [] f = "AB3" -> Amt(1, 3, 0, 0)
      [] f = "C"   -> Amt(0, 0, 1, 0)
      [] f = "D"   -> Amt(0, 0, 0, 1)
      [] OTHER     -> Amt(0, 0, 0, 0)

num_atoms(comp) == comp["A"] + comp["B"] + comp["C"] + comp["D"]
ElementsOf(comp) == {s \in Symbols : comp[s] > 0}
IsElement(comp) == Cardinality(ElementsOf(comp)) = 1
get_atomic_fraction(comp, el) == Fin(comp[el], num_atoms(comp))

\* ------------------------------------------ pymatgen PDEntry(comp, energy)
\* The second argument of PDEntry is the energy of the whole formula unit:
\* energy_per_atom = energy / composition.num_atoms.
PDEntry(comp, energy) == [composition |-> comp, energy |-> energy]
energy_per_atom(e) == FDivCount(e.energy, num_atoms(e.composition))

\* ---------------------------------------------------------- the input
\* An energy cell of the CSV: a number, a non-finite number, or text that
\* float(...) rejects.
Text == [k |-> "text", n |-> 0, d |-> 1]
FloatRaises(cell) == cell.k = "text"
NonFiniteCells == {NaN, PosInf, NegInf}

Row(f, cell) == [composition |-> f, energy_per_atom_eV |-> cell]
RequiredColumns == {"composition", "energy_per_atom_eV"}

SeqsUpTo(S, n) == UNION {[1..m -> S] : m \in 1..n}

\* ------------------------------ pymatgen PhaseDiagram(entries)._compute
Indices(ents) == 1..Len(ents)
\* Equal reduced compositions: equal atomic fractions of every element.
SameReduced(c1, c2) ==
    \A s \in Symbols : c1[s] * num_atoms(c2) = c2[s] * num_atoms(c1)
SameComposition(ents, i, j) == SameReduced(ents[i].composition, ents[j].composition)

\* Elements of the system: the union over all entries.
SystemElements(ents) == UNION {ElementsOf(ents[i].composition) : i \in Indices(ents)}

\* min(group, key=energy_per_atom) over the entries of one reduced
\* composition in input order: a later entry replaces the best one only when
\* strictly smaller, so ties keep the first seen.
RECURSIVE PyMin(_, _, _)
PyMin(ents, best, j) ==
    IF j > Len(ents) THEN best
    ELSE IF SameComposition(ents, best, j)
            /\ FLt(energy_per_atom(ents[j]), energy_per_atom(ents[best]))
         THEN PyMin(ents, j, j + 1)
         ELSE PyMin(ents, best, j + 1)

GroupFirst(ents, i) ==
    CHOOSE j \in Indices(ents) :
        /\ SameComposition(ents, i, j)
        /\ \A k \in Indices(ents) : SameComposition(ents, i, k) => j <= k

MinEntry(ents, i) == PyMin(ents, GroupFirst(ents, i), GroupFirst(ents, i) + 1)
MinEntries(ents) == {MinEntry(ents, i) : i \in Indices(ents)}

\* el_refs: element -> index of the lowest entry of the pure-element group.
RefElements(ents) ==
    {el \in Symbols : \E i \in Indices(ents) : ElementsOf(ents[i].composition) = {el}}
ElRefs(ents) ==
    [el \in RefElements(ents) |->
        MinEntry(ents, CHOOSE i \in Indices(ents) : ElementsOf(ents[i].composition) = {el})]
\* Mutant of MissingTerminals: an element counts as present when any entry
\* contains it, pure or not.
MissingAmongAllEntries(ents) ==
    SystemElements(ents)
      \ UNION {ElementsOf(ents[i].composition) : i \in Indices(ents)}

MissingTerminals(ents) == SystemElements(ents) \ RefElements(ents)

\* Sum over the elements S of fraction(el) * reference energy per atom(el).
RECURSIVE RefSum(_, _, _, _)
RefSum(ents, refs, comp, S) ==
    IF S = {} THEN Zero
    ELSE LET el == CHOOSE x \in S : TRUE
         IN  FAdd(FMul(get_atomic_fraction(comp, el), energy_per_atom(ents[refs[el]])),
                  RefSum(ents, refs, comp, S \ {el}))

\* form_e = -dot(data, vec): energy per atom minus the reference plane.
FormE(ents, refs, i) ==
    FSub(energy_per_atom(ents[i]),
         RefSum(ents, refs, ents[i].composition, DOMAIN refs))

\* qhull_entries: the group minima with negative formation energy
\* (form_e < -formation_energy_tol, which reads < 0 in exact arithmetic),
\* and the elemental references.
QhullEntries(ents) ==
    LET refs == ElRefs(ents)
    IN  {i \in MinEntries(ents) : FLt(FormE(ents, refs, i), Zero)}
          \cup {refs[el] : el \in DOMAIN refs}

\* Energy of the mixture of points i and j (coordinates xi < x < xj along
\* the fraction of one element) at x: linear interpolation.
Interpolate(xi, ei, xj, ej, x) ==
    FMul(FAdd(FMul(ei, FSub(xj, x)), FMul(ej, FSub(x, xi))),
         Fin((FSub(xj, xi)).d, (FSub(xj, xi)).n))

\* The energies of the one- and two-phase mixtures of the points Q that
\* have composition comp.  The formulas drawn have at most two elements, so
\* the facet of the lower hull over comp is a point or a segment on the
\* edge of the elements of comp, with the fraction of one of them as the
\* coordinate.
MixEnergies(ents, Q, comp) ==
    LET s  == CHOOSE el \in ElementsOf(comp) : TRUE
        x  == get_atomic_fraction(comp, s)
        C  == {q \in Q : ElementsOf(ents[q].composition) \subseteq ElementsOf(comp)}
        xs == [q \in C |-> get_atomic_fraction(ents[q].composition, s)]
        es == [q \in C |-> energy_per_atom(ents[q])]
    IN  {es[q] : q \in {c \in C : xs[c] = x}}
          \cup {Interpolate(xs[p[1]], es[p[1]], xs[p[2]], es[p[2]], x) :
                  p \in {pp \in C \X C : FLt(xs[pp[1]], x) /\ FLt(x, xs[pp[2]])}}

\* Mutant of HullEnergy: the upper envelope (the facets kept are the upper
\* ones instead of the lower ones).
UpperHullEnergy(ents, Q, comp) ==
    LET S == MixEnergies(ents, Q, comp)
    IN  IF S = {} THEN [found |-> FALSE, e |-> Zero]
        ELSE [found |-> TRUE, e |-> CHOOSE m \in S : \A y \in S : ~FLt(m, y)]

\* get_hull_energy_per_atom: found = FALSE when no facet contains comp.
HullEnergy(ents, Q, comp) ==
    LET S == MixEnergies(ents, Q, comp)
    IN  IF S = {} THEN [found |-> FALSE, e |-> Zero]
        ELSE [found |-> TRUE, e |-> CHOOSE m \in S : \A y \in S : ~FLt(y, m)]

\* Vertices of the lower hull of Q: strictly below the envelope of the
\* other points.  A point exactly on that envelope is a vertex or not
\* depending on rounding inside Qhull.
StrictVertices(ents, Q) ==
    {q \in Q : LET h == HullEnergy(ents, Q \ {q}, ents[q].composition)
               IN  ~h.found \/ FLt(energy_per_atom(ents[q]), h.e)}
OnEnvelope(ents, Q) ==
    {q \in Q : LET h == HullEnergy(ents, Q \ {q}, ents[q].composition)
               IN  h.found /\ energy_per_atom(ents[q]) = h.e}

NoDiagram == [built |-> FALSE, elements |-> {}, el_refs |-> <<>>,
              qhull |-> {}, stable |-> {}]

\* Points handed to Qhull (more than one element): it needs finite data.
FiniteOnly(ents, Q) == {q \in Q : IsFinite(energy_per_atom(ents[q]))}

\* What PhaseDiagram(entries) can do: raise for a missing terminal entry,
\* raise inside Qhull on non-finite coordinates, or return a diagram.
PhaseDiagram(ents) ==
    IF MissingTerminals(ents) # {}
    THEN {[raises |-> "MissingTerminal", pd |-> NoDiagram]}
    ELSE LET dim == Cardinality(SystemElements(ents))
             Q0 == QhullEntries(ents)
             Q == IF dim = 1 THEN Q0 ELSE FiniteOnly(ents, Q0)
             V == StrictVertices(ents, Q)
             base == [built |-> TRUE, elements |-> SystemElements(ents),
                      el_refs |-> ElRefs(ents), qhull |-> Q, stable |-> V]
         IN  {[raises |-> "", pd |-> [base EXCEPT !.stable = V \cup T]] :
                  T \in SUBSET OnEnvelope(ents, Q)}
               \cup (IF Q # Q0 THEN {[raises |-> "Qhull", pd |-> NoDiagram]} ELSE {})

\* ------------------------------------------------ PhaseDiagram queries
\* Sum over the elements S of amount(el) * reference energy per atom(el).
RECURSIVE AmtRefSum(_, _, _, _)
AmtRefSum(ents, refs, comp, S) ==
    IF S = {} THEN Zero
    ELSE LET el == CHOOSE x \in S : TRUE
         IN  FAdd(FMul(Fin(comp[el], 1), energy_per_atom(ents[refs[el]])),
                  AmtRefSum(ents, refs, comp, S \ {el}))

\* pdgm.get_form_energy_per_atom(entry)
get_form_energy_per_atom(pd, ents, entry) ==
    FDivCount(FSub(entry.energy,
                   AmtRefSum(ents, pd.el_refs, entry.composition,
                             ElementsOf(entry.composition))),
              num_atoms(entry.composition))

\* Mutant of get_e_above_hull: the distance is taken from the plane of the
\* elemental references (the formation energy) instead of from the hull.
GetEAboveHullFromReferences(pd, ents, entry) ==
    [raises |-> FALSE, v |-> get_form_energy_per_atom(pd, ents, entry)]

\* pdgm.get_e_above_hull(entry): 0 for an entry equal to a stable entry;
\* otherwise energy per atom minus the hull energy, raising when there is no
\* decomposition or the result is not >= -numerical_tol (NaN included;
\* the tolerance reads 0 in exact arithmetic).
get_e_above_hull(pd, ents, entry) ==
    IF \E q \in pd.stable : ents[q] = entry /\ entry.energy.k # "nan"
    THEN [raises |-> FALSE, v |-> Zero]
    ELSE LET h == HullEnergy(ents, pd.qhull, entry.composition)
             e == FSub(energy_per_atom(entry), h.e)
         IN  IF h.found /\ FGe(e, Zero)
             THEN [raises |-> FALSE, v |-> e]
             ELSE [raises |-> TRUE, v |-> Zero]

\* ----------------------------------------------------------- the run
NoOutput == [written |-> FALSE, rows |-> <<>>]

\* load_entries: the first row (in order) whose composition or energy
\* does not parse; 0 when every row parses.
BadRows(c) ==
    {i \in 1..Len(c.rows) :
        ParseRaises(c.rows[i].composition) \/ FloatRaises(c.rows[i].energy_per_atom_eV)}
FirstBadRow(c) ==
    IF BadRows(c) = {} THEN 0
    ELSE CHOOSE i \in BadRows(c) : \A j \in BadRows(c) : i <= j

LoadedEntries(c) ==
    [i \in 1..Len(c.rows) |->
        PDEntry(Composition(c.rows[i].composition), c.rows[i].energy_per_atom_eV)]

\* analyze line 25 / load_entries lines 13-22.
load_entries ==
    /\ pc = "start"
    /\ IF ~(RequiredColumns \subseteq df.columns)
       THEN /\ pc' = "failed" /\ error' = "MissingColumn"
            /\ entries' = entries
       ELSE IF FirstBadRow(df) # 0
       THEN /\ pc' = "failed"
            /\ error' = (IF ParseRaises(df.rows[FirstBadRow(df)].composition)
                         THEN "MalformedComposition" ELSE "InvalidEnergy")
            /\ entries' = entries
       ELSE /\ pc' = "loaded" /\ error' = error
            /\ entries' = LoadedEntries(df)
    /\ UNCHANGED <<df, plot_path, pdgm, fenergies, dists, out_csv, image, notice>>

\* analyze line 26: pdgm = PhaseDiagram(entries).
BuildPhaseDiagram ==
    /\ pc = "loaded"
    /\ \E r \in PhaseDiagram(entries) :
         IF r.raises # ""
         THEN /\ pc' = "failed" /\ error' = r.raises /\ pdgm' = pdgm
         ELSE /\ pc' = "built" /\ error' = error /\ pdgm' = r.pd
    /\ UNCHANGED <<df, plot_path, entries, fenergies, dists, out_csv, image, notice>>

\* analyze lines 28-34: the per-row loop, from the rows of df.
RowEntry(c, i) ==
    PDEntry(Composition(c.rows[i].composition), c.rows[i].energy_per_atom_eV)
FormEnergies(pd, ents, c) ==
    [i \in 1..Len(c.rows) |-> get_form_energy_per_atom(pd, ents, RowEntry(c, i))]
Distances(pd, ents, c) ==
    [i \in 1..Len(c.rows) |-> get_e_above_hull(pd, ents, RowEntry(c, i))]

\* analyze lines 35-38: df_out with the two new columns.
OutputTable(c, fe, ds) ==
    [written |-> TRUE,
     rows |-> [i \in 1..Len(c.rows) |->
                [composition |-> c.rows[i].composition,
                 energy_per_atom_eV |-> c.rows[i].energy_per_atom_eV,
                 formation_energy_per_atom_eV |-> fe[i],
                 distance_to_hull_eV |-> ds[i]]]]

\* analyze lines 27-39: compute both columns, then write the table.
ComputeAndWrite ==
    /\ pc = "built"
    /\ LET fe == FormEnergies(pdgm, entries, df)
           ds == Distances(pdgm, entries, df)
       IN  IF \E i \in 1..Len(df.rows) : ds[i].raises
           THEN /\ pc' = "failed" /\ error' = "NoDecomposition"
                /\ UNCHANGED <<fenergies, dists, out_csv>>
           ELSE /\ fenergies' = fe
                /\ dists' = [i \in 1..Len(df.rows) |-> ds[i].v]
                /\ out_csv' = OutputTable(df, fenergies', dists')
                /\ pc' = "written" /\ error' = error
    /\ UNCHANGED <<df, plot_path, entries, pdgm, image, notice>>

\* Mutant of Plot: every system of two or more elements is plotted.
PlotAnyDimension ==
    /\ pc = "written"
    /\ IF plot_path # ""
       THEN IF Cardinality(pdgm.elements) >= 2
            THEN image' = TRUE /\ notice' = notice
            ELSE notice' = TRUE /\ image' = image
       ELSE UNCHANGED <<image, notice>>
    /\ pc' = "done"
    /\ UNCHANGED <<df, plot_path, entries, pdgm, fenergies, dists, out_csv, error>>

\* analyze lines 41-48: the optional plot.
Plot ==
    /\ pc = "written"
    /\ IF plot_path # ""
       THEN IF Cardinality(pdgm.elements) = 2 \/ Cardinality(pdgm.elements) = 3
            THEN image' = TRUE /\ notice' = notice
            ELSE notice' = TRUE /\ image' = image
       ELSE UNCHANGED <<image, notice>>
    /\ pc' = "done"
    /\ UNCHANGED <<df, plot_path, entries, pdgm, fenergies, dists, out_csv, error>>

Next == load_entries \/ BuildPhaseDiagram \/ ComputeAndWrite \/ Plot

\* --------------------------------------------------------- the inputs
InitRun ==
    /\ pc = "start" /\ entries = <<>> /\ pdgm = NoDiagram
    /\ fenergies = <<>> /\ dists = <<>> /\ out_csv = NoOutput
    /\ image = FALSE /\ notice = FALSE /\ error = ""

Rows(F, cells) == {Row(f, c) : f \in F, c \in cells}
Cells(m) == {Fin(i, 1) : i \in (0 - m)..m}

\* Tables of up to n rows in any order, and tables that list the two
\* elemental references A and B first, followed by up to m compound rows.
Tables(F, cells, n, m) ==
    SeqsUpTo(Rows(F, cells), n)
      \cup {<<a, b>> \o t : a \in Rows({"A"}, cells), b \in Rows({"B"}, cells),
                            t \in SeqsUpTo(Rows(F \ {"A", "A2", "B"}, cells), m)}

\* Spec: well-formed tables over the A-B edge with finite energies.
Init ==
    /\ df \in {[columns |-> RequiredColumns, rows |-> r] :
                  r \in Tables({"A", "B", "AB", "AB3"}, Cells(MaxEnergy), MaxRows, MaxCompounds)}
    /\ plot_path = ""
    /\ InitRun
Spec == Init /\ [][Next]_vars

\* SpecUnits: as Spec, with formula units of one, two and more atoms for
\* the same composition and a wider energy range.
InitUnits ==
    /\ df \in {[columns |-> RequiredColumns, rows |-> r] :
                  r \in Tables({"A", "A2", "B", "AB"}, Cells(MaxUnitEnergy),
                               MaxUnitRows, MaxCompounds)}
    /\ plot_path = ""
    /\ InitRun
SpecUnits == InitUnits /\ [][Next]_vars

\* SpecInput: tables with missing columns, malformed formulas, text and
\* non-finite energies.
ColumnSets == {RequiredColumns, RequiredColumns \cup {"label"},
               {"composition", "label"}, {"energy_per_atom_eV"}}
InitInput ==
    /\ df \in {[columns |-> cols, rows |-> r] :
                  cols \in ColumnSets,
                  r \in SeqsUpTo(Rows({"A", "B", "AB", BadFormula},
                                      Cells(MaxEnergy) \cup NonFiniteCells \cup {Text}),
                                 MaxInputRows)}
    /\ plot_path = ""
    /\ InitRun
SpecInput == InitInput /\ [][Next]_vars

\* SpecPlot: systems of one to four elements, with and without a plot path.
InitPlot ==
    /\ df \in {[columns |-> RequiredColumns, rows |-> r] :
                  r \in SeqsUpTo(Rows({"A", "B", "C", "D"}, {Zero})
                                   \cup Rows({"AB"}, {Fin(0 - MaxEnergy, 1)}),
                                 MaxPlotRows)}
    /\ plot_path \in {"", "hull.png"}
    /\ InitRun
SpecPlot == InitPlot /\ [][Next]_vars

\* ==================================================== the properties
OutRows == 1..Len(out_csv.rows)
Distance(i) == out_csv.rows[i].distance_to_hull_eV
Formation(i) == out_csv.rows[i].formation_energy_per_atom_eV
CellOf(c, i) == c.rows[i].energy_per_atom_eV
CompOf(c, i) == Composition(c.rows[i].composition)

\* The entry set the input table describes: row i has energy_per_atom equal
\* to its energy_per_atom_eV cell.
PerAtomEntries(c) ==
    [i \in 1..Len(c.rows) |->
        PDEntry(CompOf(c, i), FMul(CellOf(c, i), Fin(num_atoms(CompOf(c, i)), 1)))]

\* The lowest energy_per_atom_eV among the pure-el rows of the table.
ReferenceEnergy(c, el) ==
    LET S == {CellOf(c, i) : i \in {j \in 1..Len(c.rows) : ElementsOf(CompOf(c, j)) = {el}}}
    IN  CHOOSE m \in S : \A x \in S : ~FLt(x, m)

RECURSIVE ReferencePlane(_, _, _)
ReferencePlane(c, comp, S) ==
    IF S = {} THEN Zero
    ELSE LET el == CHOOSE x \in S : TRUE
         IN  FAdd(FMul(get_atomic_fraction(comp, el), ReferenceEnergy(c, el)),
                  ReferencePlane(c, comp, S \ {el}))

\* C1: whenever the phase diagram is built, every row gets a distance and
\* every distance_to_hull_eV written is >= 0: no entry lies below the lower
\* hull of its own entry set (the library's below-hull error never fires).
C1_DistanceNonNegative ==
    /\ error # "NoDecomposition"
    /\ out_csv.written => \A i \in OutRows : FGe(Distance(i), Zero)

\* C1 witness: a table is written in which one compound is on the hull and
\* another row has negative formation energy and yet lies above the hull.
C1_Witness ==
    /\ out_csv.written
    /\ \E i \in OutRows : FLt(Formation(i), Zero) /\ FLt(Zero, Distance(i))
    /\ \E i \in OutRows : FLt(Formation(i), Zero) /\ Distance(i) = Zero

\* C3: every row that is a vertex of the lower hull (a stable entry of the
\* diagram) has distance_to_hull_eV = 0.
C3_VerticesAtZero ==
    out_csv.written => \A i \in pdgm.stable : Distance(i) = Zero

\* C3 witness: a written table whose hull has a compound vertex besides the
\* references, and a row off the hull.
C3_Witness ==
    /\ out_csv.written
    /\ \E i \in pdgm.stable : ~IsElement(entries[i].composition)
    /\ \E i \in OutRows : i \notin pdgm.stable /\ FLt(Zero, Distance(i))

\* Some element of some composition of the table has no pure-element row.
LacksReference(c) ==
    \E i \in 1..Len(c.rows) : \E el \in ElementsOf(CompOf(c, i)) :
        \A j \in 1..Len(c.rows) : ElementsOf(CompOf(c, j)) # {el}

\* C4: when an element of the table has no pure-element row, the run fails
\* with the missing-terminal error at the construction of the diagram, and
\* no output table is written.
C4_MissingReferenceFails ==
    LacksReference(df) =>
        /\ pc \in {"start", "loaded", "failed"}
        /\ pc = "failed" => error = "MissingTerminal"
        /\ ~pdgm.built /\ ~out_csv.written

\* C4 witness: the table holding only compound AB has failed that way.
C4_Witness ==
    /\ \A i \in 1..Len(df.rows) : df.rows[i].composition = "AB"
    /\ pc = "failed" /\ error = "MissingTerminal" /\ ~out_csv.written

\* C7: an image is written only with a plot path, 2 or 3 elements and the
\* output table already written; with a plot path and any other element
\* count the finished run has printed the notice, written no image, written
\* the table and raised nothing.
C7_PlotOnlyBinaryTernary ==
    /\ image => /\ plot_path # ""
                /\ Cardinality(pdgm.elements) \in {2, 3}
                /\ out_csv.written
    /\ notice => ~image /\ out_csv.written
    /\ (pc = "done" /\ plot_path # "" /\ Cardinality(pdgm.elements) \notin {2, 3})
         => notice /\ ~image /\ out_csv.written /\ error = ""
    /\ (pc = "written") => ENABLED Plot

\* C7 witness: a four-element run with a plot path finished with the notice.
C7_Witness ==
    /\ pc = "done" /\ plot_path # "" /\ Cardinality(pdgm.elements) = 4
    /\ notice /\ ~image /\ out_csv.written

\* C2 (as claimed; fails on the code): each elemental reference is the
\* pure-element row of lowest energy_per_atom_eV and has formation energy 0,
\* and every row's formation energy is its energy_per_atom_eV minus the
\* fraction-weighted sum of the reference energies.
C2_FormationFromPerAtomEnergies ==
    out_csv.written =>
        /\ \A el \in pdgm.elements :
             /\ ElementsOf(CompOf(df, pdgm.el_refs[el])) = {el}
             /\ CellOf(df, pdgm.el_refs[el]) = ReferenceEnergy(df, el)
             /\ Formation(pdgm.el_refs[el]) = Zero
        /\ \A i \in OutRows :
             Formation(i) = FSub(CellOf(df, i),
                                 ReferencePlane(df, CompOf(df, i), pdgm.elements))

\* The part of C2 that the code does satisfy: the reference of an element
\* is a pure-element row and its formation energy is 0.
ReferenceFormationZero ==
    out_csv.written =>
        \A el \in pdgm.elements :
            /\ ElementsOf(CompOf(df, pdgm.el_refs[el])) = {el}
            /\ Formation(pdgm.el_refs[el]) = Zero

SameCompositionRows(c, i, j) == SameReduced(CompOf(c, i), CompOf(c, j))

\* Row i has the lowest energy_per_atom_eV of its composition, first seen
\* on ties.
LowestOfComposition(c, i) ==
    \A j \in 1..Len(c.rows) :
        SameCompositionRows(c, i, j) =>
            \/ FLt(CellOf(c, i), CellOf(c, j))
            \/ CellOf(c, i) = CellOf(c, j) /\ i <= j

\* The hull energy at comp of the entry set the table describes.
PerAtomHullEnergy(c, comp) ==
    HullEnergy(PerAtomEntries(c), QhullEntries(PerAtomEntries(c)), comp).e

\* C8 (as claimed; fails on the code): appending to a valid table a row
\* whose energy_per_atom_eV is strictly higher than that of every earlier
\* row of the same composition (there is one) changes neither the hull
\* vertices nor the distance of any earlier row.
C8_MonotonicRobustness ==
    LET n  == Len(df.rows)
        c0 == [df EXCEPT !.rows = SubSeq(df.rows, 1, n - 1)]
        e0 == LoadedEntries(c0)
    IN  ( /\ pc = "done" /\ n >= 2
          /\ \E j \in 1..(n - 1) : SameCompositionRows(df, j, n)
          /\ \A j \in 1..(n - 1) :
                SameCompositionRows(df, j, n) => FLt(CellOf(df, j), CellOf(df, n)) )
        => \A r \in PhaseDiagram(e0) :
              r.raises = "" =>
                /\ StrictVertices(entries, pdgm.qhull) = StrictVertices(e0, r.pd.qhull)
                /\ \A i \in 1..(n - 1) :
                      /\ ~get_e_above_hull(r.pd, e0, e0[i]).raises
                      /\ Distance(i) = get_e_above_hull(r.pd, e0, e0[i]).v

\* C9 (as claimed; fails on the code): every duplicate row is kept, only
\* the lowest-energy row of a composition (first seen on ties) is a hull
\* vertex, and every other duplicate is written with its energy_per_atom_eV
\* minus the hull energy at its composition.
C9_DuplicatesKeepOwnDistance ==
    out_csv.written =>
        /\ Len(out_csv.rows) = Len(df.rows)
        /\ \A i \in pdgm.stable : LowestOfComposition(df, i)
        /\ \A i \in OutRows :
             ( /\ \E j \in OutRows : j # i /\ SameCompositionRows(df, i, j)
               /\ ~LowestOfComposition(df, i) )
             => Distance(i) = FSub(CellOf(df, i), PerAtomHullEnergy(df, CompOf(df, i)))

\* The part of C9 that the code does satisfy: every row is kept, in order,
\* with its own two values.
DuplicatesRetained ==
    out_csv.written =>
        /\ Len(out_csv.rows) = Len(df.rows)
        /\ \A i \in OutRows :
             /\ out_csv.rows[i].composition = df.rows[i].composition
             /\ out_csv.rows[i].energy_per_atom_eV = df.rows[i].energy_per_atom_eV

SingleElement(c) ==
    Cardinality(UNION {ElementsOf(CompOf(c, i)) : i \in 1..Len(c.rows)}) = 1

\* C10 (as claimed; fails on the code): a single-element run succeeds and
\* writes for every row its energy_per_atom_eV minus the lowest
\* energy_per_atom_eV of the table.
C10_SingleElementDistances ==
    (SingleElement(df) /\ pc \in {"written", "done", "failed"}) =>
        /\ pc # "failed" /\ out_csv.written
        /\ \A i \in OutRows :
             \A el \in pdgm.elements :
                Distance(i) = FSub(CellOf(df, i), ReferenceEnergy(df, el))

\* The part of C10 that the code does satisfy: a single-element run succeeds.
SingleElementSucceeds ==
    (SingleElement(df) /\ pc \in {"written", "done", "failed"}) =>
        pc # "failed" /\ out_csv.written

NonFiniteRows(c) ==
    {i \in 1..Len(c.rows) : CellOf(c, i).k \in {"nan", "pinf", "ninf"}}
ValidationErrors == {"MissingColumn", "MalformedComposition", "InvalidEnergy"}

\* C5 (as claimed; fails on the code): a table with a required column
\* absent, a malformed composition, or an invalid (unparsable or non-finite)
\* energy in any row fails in load_entries: no entry set, no diagram, no
\* output table.
C5_ValidationAbortsBeforeHull ==
    ( /\ pc # "start"
      /\ \/ ~(RequiredColumns \subseteq df.columns)
         \/ BadRows(df) # {}
         \/ NonFiniteRows(df) # {} )
    => /\ pc = "failed" /\ error \in ValidationErrors
       /\ entries = <<>> /\ ~pdgm.built /\ ~out_csv.written

\* The part of C5 that the code does satisfy: the failures load_entries
\* detects abort the run before the diagram is built.
DetectedFailuresAbortBeforeHull ==
    /\ ( /\ pc # "start"
         /\ \/ ~(RequiredColumns \subseteq df.columns)
            \/ BadRows(df) # {} )
       => /\ pc = "failed" /\ error \in ValidationErrors
          /\ entries = <<>> /\ ~pdgm.built /\ ~out_csv.written
    /\ error \in ValidationErrors => entries = <<>> /\ ~pdgm.built /\ ~out_csv.written

\* C6 (as claimed; fails on the code): no entry with a non-finite energy
\* is admitted to the entry set, and a table with a non-finite energy
\* fails in load_entries.
C6_NonFiniteEnergyRejected ==
    /\ \A i \in 1..Len(entries) : IsFinite(entries[i].energy)
    /\ ( /\ pc # "start" /\ RequiredColumns \subseteq df.columns
         /\ NonFiniteRows(df) # {} )
       => pc = "failed" /\ error \in ValidationErrors

====
